---- MODULE Spec2Model ----
(***************************************************************************)
(* Model of the three visual verification scripts of src/verification:     *)
(*   verify_app.py, verify_autopilot.py, verify_refactor.py.               *)
(* Each script is one function that launches a headless browser, opens a   *)
(* page, navigates, waits for a selector, optionally clicks and waits,     *)
(* takes a screenshot, and closes the browser in a finally block.          *)
(* One run of a script is modelled step by step; pc is the position of the *)
(* run in the function body.  The outcome of every library call is decided *)
(* by the environment of the run (env), chosen when the script is invoked. *)
(***************************************************************************)
EXTENDS Integers, Sequences, FiniteSets

VARIABLES
    variant,     \* which script is running
    pc,          \* position of the run in the function body
    run,         \* number of script invocations so far
    env,         \* the environment of this run (what each library call will meet)
    fs,          \* the filesystem: a set of files [path, data]
    console,     \* lines printed by this run, each a sequence of text pieces
    closeCount,  \* number of browser.close() calls made by this run
    trace,       \* history: the run states (spec 4.1) this run has entered
    failedStep,  \* history: the library call that raised in this run, or "none"
    waitedMs,    \* history: total time spent in page.wait_for_timeout by this run
    fsAtStart    \* history: the filesystem when this run was invoked

vars == <<variant, pc, run, env, fs, console, closeCount, trace, failedStep,
          waitedMs, fsAtStart>>

-----------------------------------------------------------------------------
(* Bounds of the model *)

\* number of script invocations explored
MaxRuns == 2

-----------------------------------------------------------------------------
(* The fixed configuration of each script *)

Variants == {"verify_app", "verify_autopilot", "verify_refactor"}

\* path= argument of page.screenshot
ScreenshotPath(v) ==
    CASE v = "verify_app"       -> "verification/app_screenshot.png"
      [] v = "verify_autopilot" -> "verification/autopilot_active.png"
      [] v = "verify_refactor"  -> "verification/app_running.png"

\* timeout= argument of page.wait_for_selector; verify_refactor passes none
ConfiguredTimeout(v) ==
    CASE v = "verify_app"       -> {10000}
      [] v = "verify_autopilot" -> {5000}
      [] v = "verify_refactor"  -> {}

\* the timeout the library applies when the call passes none (30 s)
DefaultTimeoutMs == 30000

\* the bound on the readiness wait that is in force
ReadinessTimeout(v) ==
    IF ConfiguredTimeout(v) = {} THEN DefaultTimeoutMs
    ELSE CHOOSE t \in ConfiguredTimeout(v) : TRUE

\* argument of page.wait_for_timeout, for the scripts that call it
SettleMs(v) ==
    CASE v = "verify_autopilot" -> 3000
      [] v = "verify_refactor"  -> 2000

\* the line printed after a successful screenshot, as its text pieces
SuccessMessage_samePlainText(v) == <<"Screenshot taken successfully">>

SuccessMessage(v) ==
    CASE v = "verify_app"       -> <<"Screenshot taken successfully">>
      [] v = "verify_autopilot" -> <<"Screenshot saved.">>
      [] v = "verify_refactor"  -> <<"Screenshot taken: ", "verification/app_running.png">>

\* the progress line verify_autopilot prints before a step (no other script prints any)
ProgressLine(v, step) ==
    IF v # "verify_autopilot" THEN <<>>
    ELSE CASE step = "goto"             -> << <<"Navigating to app...">> >>
           [] step = "click"            -> << <<"Clicking start overlay...">> >>
           [] step = "wait_for_timeout" -> << <<"Waiting for autopilot...">> >>
           [] step = "screenshot"       -> << <<"Taking screenshot...">> >>
           [] OTHER                     -> <<>>

\* str(e) of the exception a failing library call raises
ErrText(step) ==
    CASE step = "goto"              -> "net::ERR_CONNECTION_REFUSED"
      [] step = "wait_for_selector" -> "Timeout exceeded waiting for selector"
      [] step = "click"             -> "Timeout exceeded waiting for click target"
      [] step = "wait_for_timeout"  -> "Target page, context or browser has been closed"
      [] step = "screenshot"        -> "Failed to write screenshot file"

\* print(f"Error: {e}")
ErrorLine(step) == <<"Error: ", ErrText(step)>>

-----------------------------------------------------------------------------
(* The environment of a run *)

Never == -1

\* when (ms after navigation) the awaited selector becomes ready, or Never
AppearTimes == {0, 4000, 7000, 20000, 40000, Never}

Envs ==
    [ launchOk       : BOOLEAN,      \* p.chromium.launch succeeds
      pageOk         : BOOLEAN,      \* browser.new_page succeeds
      serverUp       : BOOLEAN,      \* a server listens at the script's URL
      appearAt       : AppearTimes,  \* when the awaited selector becomes ready
      overlayPresent : BOOLEAN,      \* the page has a clickable #start-overlay
      settleOk       : BOOLEAN,      \* the page survives the settle wait
      fsOk           : BOOLEAN ]     \* the screenshot file can be written

\* before the first invocation there is no run and no environment to speak of
NoEnv ==
    [ launchOk |-> TRUE, pageOk |-> TRUE, serverUp |-> TRUE, appearAt |-> 0,
      overlayPresent |-> TRUE, settleOk |-> TRUE, fsOk |-> TRUE ]

\* wait_for_selector returns iff the selector is ready before the timeout elapses
Appears(t, timeout) == t # Never /\ t <= timeout

\* page.screenshot(path=...) writes the file, replacing any file at that path
WriteFile(files, path, data) ==
    {f \in files : f.path # path} \cup {[path |-> path, data |-> data]}

FilesAt(files, path) == {f \in files : f.path = path}

Contains(line, piece) == \E i \in DOMAIN line : line[i] = piece

-----------------------------------------------------------------------------
(* Control flow helpers *)

\* the call returned: the run enters the next state
Proceed(next) ==
    /\ pc' = next
    /\ trace' = Append(trace, next)
    /\ UNCHANGED failedStep

\* the call raised inside the try block: control goes to the except clause
Throw(step) ==
    /\ pc' = "Failed"
    /\ failedStep' = step
    /\ UNCHANGED trace

\* the call raised outside the try block: the exception leaves the function
Propagate(step) ==
    /\ pc' = "Raised"
    /\ failedStep' = step
    /\ UNCHANGED trace

-----------------------------------------------------------------------------
Init ==
    /\ variant = "verify_app"
    /\ pc = "Idle"
    /\ run = 0
    /\ env = NoEnv
    /\ fs = {}
    /\ console = <<>>
    /\ closeCount = 0
    /\ trace = <<>>
    /\ failedStep = "none"
    /\ waitedMs = 0
    /\ fsAtStart = {}

\* the script is run: `if __name__ == "__main__": verify_app()`, entering
\* `with sync_playwright() as p`
Invoke ==
    /\ pc \in {"Idle", "Returned", "Raised"}
    /\ run < MaxRuns
    /\ run' = run + 1
    /\ variant' \in Variants
    /\ env' \in Envs
    /\ pc' = "Started"
    /\ trace' = <<"Idle">>
    /\ console' = <<>>
    /\ closeCount' = 0
    /\ failedStep' = "none"
    /\ waitedMs' = 0
    /\ fsAtStart' = fs
    /\ UNCHANGED fs

\* browser = p.chromium.launch(headless=True)
Launch ==
    /\ pc = "Started"
    /\ \/ env.launchOk /\ Proceed("BrowserLaunched")
       \/ ~env.launchOk /\ Propagate("launch")
    /\ UNCHANGED <<variant, run, env, fs, console, closeCount, waitedMs, fsAtStart>>

\* page = browser.new_page(), before the try block
NewPage ==
    /\ pc = "BrowserLaunched"
    /\ \/ env.pageOk /\ Proceed("PageOpened")
       \/ ~env.pageOk /\ Propagate("new_page")
    /\ UNCHANGED <<variant, run, env, fs, console, closeCount, waitedMs, fsAtStart>>

\* try: page.goto(<url>)
Goto_outsideTry ==
    /\ pc = "PageOpened"
    /\ console' = console \o ProgressLine(variant, "goto")
    /\ \/ env.serverUp /\ Proceed("Navigated")
       \/ ~env.serverUp /\ Propagate("goto")
    /\ UNCHANGED <<variant, run, env, fs, closeCount, waitedMs, fsAtStart>>

Goto ==
    /\ pc = "PageOpened"
    /\ console' = console \o ProgressLine(variant, "goto")
    /\ \/ env.serverUp /\ Proceed("Navigated")
       \/ ~env.serverUp /\ Throw("goto")
    /\ UNCHANGED <<variant, run, env, fs, closeCount, waitedMs, fsAtStart>>

\* page.wait_for_selector(<selector>[, timeout=...])
WaitForSelector_noTimeoutArg ==
    /\ pc = "Navigated"
    /\ \/ Appears(env.appearAt, DefaultTimeoutMs) /\ Proceed("Ready")
       \/ ~Appears(env.appearAt, DefaultTimeoutMs) /\ Throw("wait_for_selector")
    /\ UNCHANGED <<variant, run, env, fs, console, closeCount, waitedMs, fsAtStart>>

WaitForSelector ==
    /\ pc = "Navigated"
    /\ \/ Appears(env.appearAt, ReadinessTimeout(variant)) /\ Proceed("Ready")
       \/ ~Appears(env.appearAt, ReadinessTimeout(variant)) /\ Throw("wait_for_selector")
    /\ UNCHANGED <<variant, run, env, fs, console, closeCount, waitedMs, fsAtStart>>

\* page.click("#start-overlay"), in verify_autopilot only
Click_errorIgnored ==
    /\ variant = "verify_autopilot"
    /\ pc = "Ready"
    /\ console' = console \o ProgressLine(variant, "click")
    /\ \/ env.overlayPresent /\ Proceed("Interacted")
       \/ /\ ~env.overlayPresent
          /\ pc' = "Interacted"
          /\ failedStep' = "click"
          /\ UNCHANGED trace
    /\ UNCHANGED <<variant, run, env, fs, closeCount, waitedMs, fsAtStart>>

Click ==
    /\ variant = "verify_autopilot"
    /\ pc = "Ready"
    /\ console' = console \o ProgressLine(variant, "click")
    /\ \/ env.overlayPresent /\ Proceed("Interacted")
       \/ ~env.overlayPresent /\ Throw("click")
    /\ UNCHANGED <<variant, run, env, fs, closeCount, waitedMs, fsAtStart>>

\* the position from which page.wait_for_timeout is reached
BeforeSettle(v) ==
    CASE v = "verify_autopilot" -> "Interacted"
      [] v = "verify_refactor"  -> "Ready"

\* page.wait_for_timeout(<ms>), in verify_autopilot and verify_refactor only
WaitForTimeout_skipped ==
    /\ variant \in {"verify_autopilot", "verify_refactor"}
    /\ pc = BeforeSettle(variant)
    /\ console' = console \o ProgressLine(variant, "wait_for_timeout")
    /\ pc' = "Settled"
    /\ UNCHANGED <<trace, failedStep, waitedMs>>
    /\ UNCHANGED <<variant, run, env, fs, closeCount, fsAtStart>>

WaitForTimeout ==
    /\ variant \in {"verify_autopilot", "verify_refactor"}
    /\ pc = BeforeSettle(variant)
    /\ console' = console \o ProgressLine(variant, "wait_for_timeout")
    /\ \/ /\ env.settleOk
          /\ waitedMs' = waitedMs + SettleMs(variant)
          /\ Proceed("Settled")
       \/ /\ ~env.settleOk
          /\ UNCHANGED waitedMs
          /\ Throw("wait_for_timeout")
    /\ UNCHANGED <<variant, run, env, fs, closeCount, fsAtStart>>

\* the position from which page.screenshot is reached
BeforeScreenshot(v) ==
    CASE v = "verify_app"       -> "Ready"
      [] v = "verify_autopilot" -> "Settled"
      [] v = "verify_refactor"  -> "Settled"

\* page.screenshot(path=<path>); the image shows the page as it is in this run
Screenshot_copiedPath ==
    /\ pc = BeforeScreenshot(variant)
    /\ console' = console \o ProgressLine(variant, "screenshot")
    /\ \/ /\ env.fsOk
          /\ fs' = WriteFile(fs, ScreenshotPath("verify_app"), run)
          /\ Proceed("Captured")
       \/ /\ ~env.fsOk
          /\ UNCHANGED fs
          /\ Throw("screenshot")
    /\ UNCHANGED <<variant, run, env, closeCount, waitedMs, fsAtStart>>

Screenshot_noOverwrite ==
    /\ pc = BeforeScreenshot(variant)
    /\ console' = console \o ProgressLine(variant, "screenshot")
    /\ \/ /\ env.fsOk
          /\ fs' = fs \cup {[path |-> ScreenshotPath(variant), data |-> run]}
          /\ Proceed("Captured")
       \/ /\ ~env.fsOk
          /\ UNCHANGED fs
          /\ Throw("screenshot")
    /\ UNCHANGED <<variant, run, env, closeCount, waitedMs, fsAtStart>>

Screenshot ==
    /\ pc = BeforeScreenshot(variant)
    /\ console' = console \o ProgressLine(variant, "screenshot")
    /\ \/ /\ env.fsOk
          /\ fs' = WriteFile(fs, ScreenshotPath(variant), run)
          /\ Proceed("Captured")
       \/ /\ ~env.fsOk
          /\ UNCHANGED fs
          /\ Throw("screenshot")
    /\ UNCHANGED <<variant, run, env, closeCount, waitedMs, fsAtStart>>

\* print(<success message>), the last statement of the try block
PrintSuccess ==
    /\ pc = "Captured"
    /\ console' = Append(console, SuccessMessage(variant))
    /\ pc' = "Reported"
    /\ UNCHANGED <<variant, run, env, fs, closeCount, trace, failedStep, waitedMs,
                   fsAtStart>>

\* except Exception as e: print(f"Error: {e}")
HandleException ==
    /\ pc = "Failed"
    /\ console' = Append(console, ErrorLine(failedStep))
    /\ pc' = "Handled"
    /\ UNCHANGED <<variant, run, env, fs, closeCount, trace, failedStep, waitedMs,
                   fsAtStart>>

\* finally: browser.close()
CloseBrowser ==
    /\ pc \in {"Reported", "Handled"}
    /\ closeCount' = closeCount + 1
    /\ pc' = "Closed"
    /\ trace' = Append(trace, "Closed")
    /\ UNCHANGED <<variant, run, env, fs, console, failedStep, waitedMs, fsAtStart>>

\* the with block and the function end normally
Return ==
    /\ pc = "Closed"
    /\ pc' = "Returned"
    /\ UNCHANGED <<variant, run, env, fs, console, closeCount, trace, failedStep,
                   waitedMs, fsAtStart>>

Next ==
    \/ Invoke
    \/ Launch
    \/ NewPage
    \/ Goto
    \/ WaitForSelector
    \/ Click
    \/ WaitForTimeout
    \/ Screenshot
    \/ PrintSuccess
    \/ HandleException
    \/ CloseBrowser
    \/ Return

Spec == Init /\ [][Next]_vars

-----------------------------------------------------------------------------
(* Vocabulary of the properties *)

\* the invocation is over: the function returned, or an exception left it
Ended == pc \in {"Returned", "Raised"}

\* this run has entered run state s
Entered(s) == \E i \in DOMAIN trace : trace[i] = s

\* in this run, state s was entered directly after state before
DirectlyAfter(s, before) ==
    \E i \in DOMAIN trace : i > 1 /\ trace[i] = s /\ trace[i - 1] = before

HasErrorLine == \E i \in DOMAIN console : console[i][1] = "Error: "

HasSuccessLine == \E i \in DOMAIN console : console[i] = SuccessMessage(variant)

PrintsOutputPath ==
    \E i \in DOMAIN console : Contains(console[i], ScreenshotPath(variant))

IsPrefix(s, t) == Len(s) <= Len(t) /\ \A i \in DOMAIN s : s[i] = t[i]

Front(s) == SubSeq(s, 1, Len(s) - 1)

\* the target is reachable and the selector becomes ready before the timeout in force
ReachableAndReady ==
    /\ env.launchOk /\ env.pageOk /\ env.serverUp
    /\ Appears(env.appearAt, ReadinessTimeout(variant))

\* every step the variant performs after the readiness wait meets no obstacle
LaterStepsOk ==
    /\ variant = "verify_autopilot" => env.overlayPresent
    /\ variant \in {"verify_autopilot", "verify_refactor"} => env.settleOk
    /\ env.fsOk

\* the output path of the variant holds exactly this run's capture
OutputIsThisRun ==
    FilesAt(fs, ScreenshotPath(variant)) =
        {[path |-> ScreenshotPath(variant), data |-> run]}

-----------------------------------------------------------------------------
(* C1 *)

\* C1: a failure of any of steps 2-7 (new_page, goto, wait_for_selector, click,
\* wait_for_timeout, screenshot) is caught inside the run function: the run
\* returns normally with an error line printed and nothing is raised to the host.
\* Refuted: browser.new_page() is called before the try block.
C1_FailureCaught ==
    (Ended /\ failedStep \in {"new_page", "goto", "wait_for_selector", "click",
                              "wait_for_timeout", "screenshot"})
        => (pc = "Returned" /\ HasErrorLine)

(* C2 *)

\* C2: in every run in which the browser was launched, browser.close() has been
\* called exactly once when the run ends, whatever later step failed.
\* Refuted: a failure of browser.new_page() leaves the function without close().
C2_ClosedExactlyOnce ==
    /\ closeCount <= 1
    /\ (Ended /\ Entered("BrowserLaunched")) => closeCount = 1

(* C3 *)

\* C3: in every variant, when navigation fails because no server listens, or the
\* selector is not ready within the readiness wait, the run still completes: an
\* error line is printed, the browser is closed once, the function returns.
C3_UnreachableOrNotReady ==
    (/\ Ended
     /\ Entered("PageOpened")
     /\ (~env.serverUp \/ ~Appears(env.appearAt, ReadinessTimeout(variant))))
        => /\ pc = "Returned"
           /\ HasErrorLine
           /\ closeCount = 1
           /\ failedStep \in {"goto", "wait_for_selector"}

C3_Witness ==
    /\ pc = "Returned"
    /\ ~env.serverUp
    /\ failedStep = "goto"
    /\ HasErrorLine

(* C4 *)

\* C4 as stated: whenever the target is reachable and the selector becomes ready
\* within the timeout, the ended run has written the image file at the variant's
\* output path, with no further condition on the page (the settle wait and the
\* write of the file are granted to meet no obstacle).
\* Refuted: in verify_autopilot a missing #start-overlay makes the click raise.
C4_ReadyImpliesFile ==
    (Ended /\ ReachableAndReady /\ env.settleOk /\ env.fsOk) => OutputIsThisRun

\* C4 amended: whenever the target is reachable, the selector becomes ready within
\* the timeout in force, and every later step of the variant succeeds (the click in
\* verify_autopilot, the settle wait where there is one, the write of the image),
\* the ended run has written the image file at the variant's output path.
C4_Amended ==
    (Ended /\ ReachableAndReady /\ LaterStepsOk) => OutputIsThisRun

C4_Witness ==
    /\ pc = "Returned"
    /\ variant = "verify_autopilot"
    /\ ReachableAndReady /\ LaterStepsOk
    /\ Entered("Interacted")
    /\ OutputIsThisRun

(* C5 *)

\* the order of run states the claim gives for variant v
Chain(v) ==
    <<"Idle", "BrowserLaunched", "PageOpened", "Navigated", "Ready">>
    \o (IF v = "verify_autopilot" THEN <<"Interacted">> ELSE <<>>)
    \o <<"Settled", "Captured", "Closed">>

\* C5: every run in which the browser was launched follows the linear order Idle,
\* BrowserLaunched, PageOpened, Navigated, Ready, [Interacted], Settled, Captured,
\* Closed; a failure at any step goes directly to Closed, skipping all later
\* steps; and every such run ends in Closed.
\* Refuted: a failure of browser.new_page() ends the run without Closed (and
\* verify_app goes from Ready to Captured without Settled).
C5_LinearOrder ==
    Entered("BrowserLaunched") =>
        /\ \/ IsPrefix(trace, Chain(variant))
           \/ /\ trace[Len(trace)] = "Closed"
              /\ IsPrefix(Front(trace), Chain(variant))
        /\ Ended => trace[Len(trace)] = "Closed"

(* C6 *)

\* C6 as stated: in each variant the readiness wait is bounded by a timeout of 5
\* to 10 seconds: a selector ready within 5000 ms is always waited for, and when
\* the selector is not ready within 10000 ms the run fails without a screenshot.
\* Refuted: verify_refactor passes no timeout, so the 30000 ms default applies.
C6_BoundedFiveToTen ==
    (Ended /\ Entered("Navigated")) =>
        /\ Appears(env.appearAt, 5000) => Entered("Ready")
        /\ ~Appears(env.appearAt, 10000) => (failedStep # "none" /\ ~Entered("Captured"))

\* the readiness timeout in force in variant v, as the amended claim states it
C6_Limit(v) ==
    CASE v = "verify_app"       -> 10000
      [] v = "verify_autopilot" -> 5000
      [] v = "verify_refactor"  -> 30000

\* C6 amended: the readiness wait is bounded by 10000 ms in verify_app and by
\* 5000 ms in verify_autopilot, both set by the script; verify_refactor sets no
\* timeout and is bounded by the 30000 ms default.  In each variant the wait
\* succeeds iff the selector is ready within that bound, and otherwise the whole
\* run fails at the wait and no screenshot is captured.
C6_Amended ==
    (Ended /\ Entered("Navigated")) =>
        /\ Entered("Ready") <=> Appears(env.appearAt, C6_Limit(variant))
        /\ ~Appears(env.appearAt, C6_Limit(variant))
               => (failedStep = "wait_for_selector" /\ ~Entered("Captured"))
        /\ variant \in {"verify_app", "verify_autopilot"}
               => (ConfiguredTimeout(variant) = {C6_Limit(variant)}
                   /\ C6_Limit(variant) \in 5000..10000)
        /\ variant = "verify_refactor" => ConfiguredTimeout(variant) = {}

C6_Witness ==
    /\ pc = "Returned"
    /\ variant = "verify_refactor"
    /\ env.appearAt = 40000
    /\ failedStep = "wait_for_selector"
    /\ ~Entered("Captured")

(* C7 *)

\* C7 as stated: in every variant no screenshot is captured without a directly
\* preceding settle wait of 2 to 3 seconds.
\* Refuted: verify_app takes the screenshot right after the readiness wait.
C7_SettleBeforeCapture ==
    Entered("Captured") =>
        (DirectlyAfter("Captured", "Settled") /\ waitedMs \in 2000..3000)

\* C7 amended: in verify_autopilot (3000 ms, after the click) and verify_refactor
\* (2000 ms, after readiness) a fixed settle wait directly precedes every
\* screenshot; verify_app performs no settle wait and captures directly after
\* readiness.
C7_Amended ==
    Entered("Captured") =>
        /\ variant = "verify_app"
               => (DirectlyAfter("Captured", "Ready") /\ waitedMs = 0)
        /\ variant = "verify_autopilot"
               => /\ DirectlyAfter("Captured", "Settled")
                  /\ DirectlyAfter("Settled", "Interacted")
                  /\ waitedMs = 3000
        /\ variant = "verify_refactor"
               => /\ DirectlyAfter("Captured", "Settled")
                  /\ DirectlyAfter("Settled", "Ready")
                  /\ waitedMs = 2000

C7_Witness ==
    /\ Entered("Captured")
    /\ variant = "verify_autopilot"
    /\ DirectlyAfter("Captured", "Settled")
    /\ waitedMs = 3000

(* C8 *)

\* C8 as stated: in every variant a run whose screenshot succeeded has printed a
\* confirmation line that includes the variant's output path.
\* Refuted: verify_app prints "Screenshot taken successfully".
C8_ConfirmationHasPath ==
    (Ended /\ Entered("Captured")) => PrintsOutputPath

\* C8 amended: in every variant a run whose screenshot succeeded ends with a
\* confirmation line as its last printed line and no error line; the line includes
\* the output path in verify_refactor only.
C8_Amended ==
    (Ended /\ Entered("Captured")) =>
        /\ pc = "Returned"
        /\ console # <<>>
        /\ console[Len(console)] = SuccessMessage(variant)
        /\ ~HasErrorLine
        /\ PrintsOutputPath <=> variant = "verify_refactor"

C8_Witness ==
    /\ pc = "Returned"
    /\ Entered("Captured")
    /\ variant = "verify_refactor"
    /\ PrintsOutputPath

(* C9 *)

\* C9: a run that captures leaves exactly one file at the variant's output path,
\* holding that run's capture, also when an earlier run of the same variant left
\* its capture there; and whether a run captures is decided by that run's own
\* environment alone, not by what earlier runs left behind.
C9_Overwrite ==
    /\ Entered("Captured") =>
           /\ OutputIsThisRun
           /\ Cardinality(FilesAt(fs, ScreenshotPath(variant))) = 1
    /\ Ended => (Entered("Captured") <=> (ReachableAndReady /\ LaterStepsOk))

C9_Witness ==
    /\ pc = "Returned"
    /\ run = 2
    /\ Entered("Captured")
    /\ [path |-> ScreenshotPath(variant), data |-> 1] \in fsAtStart
    /\ OutputIsThisRun

(* C10 *)

\* C10: in a run where navigation, the readiness wait, the click or the settle
\* wait fails, the filesystem is as it was when the run began, an error line is
\* printed and no confirmation is printed; and no run prints both a confirmation
\* and an error line.
C10_FailureLeavesFile ==
    /\ (Ended /\ failedStep \in {"goto", "wait_for_selector", "click",
                                 "wait_for_timeout"})
           => (fs = fsAtStart /\ HasErrorLine /\ ~HasSuccessLine)
    /\ ~(HasErrorLine /\ HasSuccessLine)

C10_Witness ==
    /\ pc = "Returned"
    /\ failedStep = "click"
    /\ run = 2
    /\ fs = fsAtStart
    /\ FilesAt(fs, ScreenshotPath(variant)) # {}
    /\ HasErrorLine

====
